---- MODULE Spec2Model ----
(***************************************************************************)
(* Job pipelines of the video service.                                     *)
(*                                                                         *)
(*   src/server.js          lip-sync server: POST /api/create-video        *)
(*                          (fire-and-forget processVideoWithDreamFace),   *)
(*                          POST /process-uuid, callDreamFaceAPI,          *)
(*                          pollDreamFaceCompletion, the record store.     *)
(*   src/unnamed/part_000   merge server: POST /api/create-video           *)
(*                          (fire-and-forget async job), mergeVideoWithMusic*)
(*                                                                         *)
(* Node runs one callback at a time: every action below is the code that   *)
(* runs between two awaits of one execution, together with the settled     *)
(* outcome of the await that resumes it.                                   *)
(***************************************************************************)
EXTENDS Integers, Sequences, FiniteSets

VARIABLES
    store,          \* the luna-user-jobs table: a sequence of rows
    kind,           \* per execution: which handler serves it
    pc,             \* per execution: the await it is suspended at
    uuid,           \* per execution: the job identifier it works on
    attempts,       \* per execution: pollDreamFaceCompletion's `attempts`
    taskId,         \* per execution: dreamfaceResult.taskId
    result,         \* per execution: lipSyncedVideoUrl
    error,          \* per execution: the error its catch block holds
    failWrite,      \* per execution: how its last 'failed' PATCH settled
    wrote,          \* per execution: the kind of status its last PATCH carried
                    \* ("progress", "success", "success_acked" once the store
                    \* answered 2xx to it, "failed"; "none" before the first)
    resp,           \* per execution: the HTTP response sent to the caller
    unhandled,      \* a promise rejected with no handler attached
    videoHasAudio,  \* per merge job: the downloaded video has an audio stream
    outAudio,       \* per merge job: inputs whose audio reaches the output
    files,          \* the files on the server's disk, each with its writer
    videoDuration,  \* per merge job: metadata.format.duration of the video
    musicLen,       \* per merge job: length of the downloaded music track
    processed,      \* per merge job: the conditioned music file
    run,            \* per execution: the promise around its last ffmpeg run
    ev              \* observation: the provider answers the pipeline has seen

vars == <<store, kind, pc, uuid, attempts, taskId, result, error, failWrite, wrote,
          resp, unhandled, videoHasAudio, outAudio, files, videoDuration,
          musicLen, processed, run, ev>>

\* ------------------------------------------------------------------ bounds

\* Rows with uuid "u0" the table may hold before the first request.
MaxPreexisting == 1

\* Status checks of one poll that the provider of Spec leaves pending.
MaxPendingChecks == 2

\* The longest video (metadata.format.duration) and music track, in seconds.
MaxDuration == 4
MaxMusic == 3

\* The events one ffmpeg run emits at most.
MaxEngineEvents == 3

\* The executions (requests) of one run; each serves one request.
Slots == {1, 2}

\* ------------------------------------------------------- program constants

\* src/server.js:201  const maxAttempts = 120
maxAttempts == 120

\* src/server.js:224  if (attempts < 5)
earlyFailures == 5

\* src/server.js:226 and :272/:284  the two setTimeout delays, in seconds
longWait == 10
shortWait == 5

\* src/unnamed/part_000:115  afade=t=out:...:d=2, and the 2 of videoDuration - 2
fadeSeconds == 2

\* src/unnamed/part_000:112  '-stream_loop -1': the loop count that means
\* "repeat without end", used as the length of a stream that never ends
Endless == -1

\* ------------------------------------------------------------ record store

NoUrl == ""
TheUrl == "https://cdn/lipsync.mp4"
TheTask == "task-1"

\* A row as server.js reads and writes it.
Row(u, v, a) ==
    [uuid |-> u, status |-> "processing_started", video |-> v, audio |-> a,
     task |-> "", stitch |-> NoUrl, merged |-> NoUrl, err |-> ""]

\* uuidv4(): an identifier no row and no other execution has.
FreshUuid(e) == IF e = 1 THEN "j1" ELSE IF e = 2 THEN "j2" ELSE "j3"

\* GET ...?uuid=eq.<u>&select=*  (the rows fetchFromSupabase receives)
SelectRows(s, u) == SelectSeq(s, LAMBDA r : r.uuid = u)

CountRows(s, u) == Len(SelectRows(s, u))

\* PATCH ...?uuid=eq.<u>: the fields of updateData overwrite those of every
\* matching row; no row is added or removed.
PatchRows(s, u, upd) ==
    [i \in DOMAIN s |->
        IF s[i].uuid = u
        THEN [f \in DOMAIN s[i] |-> IF f \in DOMAIN upd THEN upd[f] ELSE s[i][f]]
        ELSE s[i]]

\* A broken variant: the write is sent as an insert (POST) of a new row.
updateSupabaseRecordAsInsert(s, u, upd, so) ==
    IF so = "ok"
    THEN Append(s, [f \in DOMAIN Row(u, FALSE, FALSE) |->
                        IF f \in DOMAIN upd THEN upd[f] ELSE Row(u, FALSE, FALSE)[f]])
    ELSE s

\* updateSupabaseRecord(uuid, updateData): the table after the call, when the
\* store answers `so` ("ok" 2xx, "rejected" non-2xx, "neterr" fetch throws).
updateSupabaseRecord(s, u, upd, so) ==
    IF so = "ok" THEN PatchRows(s, u, upd) ELSE s

StoreOutcomes == {"ok", "rejected", "neterr"}

\* ------------------------------------------------- provider: submission

\* The fields of the submission response callDreamFaceAPI looks at, in the
\* order of its || chain; "data.x" is result.data && result.data.x.
TaskAliases ==
    <<"taskId", "task_id", "id", "requestId", "data.taskId", "data.task_id", "data.id">>

AliasSet == {TaskAliases[i] : i \in DOMAIN TaskAliases}

\* a || b on strings: the empty string (like undefined) is falsy.
OrElse(a, b) == IF a # "" THEN a ELSE b

\* A broken variant: an invented identifier when the response carries none.
ExtractTaskIdDefaulting(body) == TheTask

\* src/server.js:174-180: the task identifier of a 2xx submission body.
ExtractTaskId(body) ==
    OrElse(body["taskId"],
    OrElse(body["task_id"],
    OrElse(body["id"],
    OrElse(body["requestId"],
    OrElse(body["data.taskId"],
    OrElse(body["data.task_id"], body["data.id"]))))))

EmptyBody == [a \in AliasSet |-> ""]

\* Every way a submission can settle: no API key (thrown before the request),
\* a thrown network error, a non-2xx answer, a 2xx body with any aliases set.
SubmitResponses ==
    {[t |-> "nokey"], [t |-> "neterr"], [t |-> "non2xx"]}
        \cup {[t |-> "ok", body |-> b] : b \in [AliasSet -> {"", TheTask}]}

SubmitResponsesSmall ==
    {[t |-> "non2xx"], [t |-> "ok", body |-> EmptyBody],
     [t |-> "ok", body |-> [EmptyBody EXCEPT !["data.taskId"] = TheTask]]}

\* ----------------------------------------------------- provider: status

StatusWords == {"", "processing", "completed", "success", "failed", "error"}

UrlAliases ==
    <<"resultUrl", "result_url", "videoUrl", "video_url", "outputUrl", "output_url">>

DiagAliases == <<"error", "errorMessage", "message">>

EmptyPayload ==
    [status |-> "", state |-> "",
     resultUrl |-> "", result_url |-> "", videoUrl |-> "", video_url |-> "",
     outputUrl |-> "", output_url |-> "",
     error |-> "", errorMessage |-> "", message |-> ""]

\* The status/state pairs explored: each word alone in either field, and the
\* pairs in which the two fields disagree about the outcome.
StatusPairs ==
    {<<w, "">> : w \in StatusWords} \cup {<<"", w>> : w \in StatusWords}
    \cup {<<"completed", "failed">>, <<"failed", "completed">>,
          <<"processing", "success">>, <<"processing", "error">>}

\* The 2xx status payloads explored: every pair with and without a result
\* URL, every URL alias, every diagnostic alias.
StatusPayloads ==
    {[EmptyPayload EXCEPT !.status = sp[1], !.state = sp[2], !.resultUrl = u] :
        sp \in StatusPairs, u \in {NoUrl, TheUrl}}
    \cup {[EmptyPayload EXCEPT !.status = "completed", ![UrlAliases[i]] = TheUrl] :
        i \in DOMAIN UrlAliases}
    \cup {[EmptyPayload EXCEPT !.state = "failed", ![DiagAliases[i]] = "provider says no"] :
        i \in DOMAIN DiagAliases}

StatusResponses ==
    {[t |-> "neterr"], [t |-> "non2xx"]}
        \cup {[t |-> "ok", body |-> p] : p \in StatusPayloads}

StatusResponsesSmall ==
    {[t |-> "non2xx"],
     [t |-> "ok", body |-> [EmptyPayload EXCEPT !.status = "processing"]],
     [t |-> "ok", body |-> [EmptyPayload EXCEPT !.status = "completed", !.resultUrl = TheUrl]],
     [t |-> "ok", body |-> [EmptyPayload EXCEPT !.status = "failed"]]}

\* src/server.js:243-246
isCompleted(p) ==
    \/ p.status = "completed"
    \/ p.status = "success"
    \/ p.state = "completed"
    \/ p.state = "success"

\* src/server.js:248-253
resultUrl(p) ==
    OrElse(p.resultUrl,
    OrElse(p.result_url,
    OrElse(p.videoUrl,
    OrElse(p.video_url,
    OrElse(p.outputUrl, p.output_url)))))

\* src/server.js:261-264
isFailed(p) ==
    \/ p.status = "failed"
    \/ p.status = "error"
    \/ p.state = "failed"
    \/ p.state = "error"

\* src/server.js:267
errorMessage(p) ==
    OrElse(p.error, OrElse(p.errorMessage, OrElse(p.message, "Unknown error")))

\* A broken variant: the state field is not looked at.
LipsyncStatusFromStatusOnly(p) == "lipsync_" \o OrElse(p.status, "processing")

\* src/server.js:238  `lipsync_${status.status || status.state || 'processing'}`
LipsyncStatus(p) == "lipsync_" \o OrElse(p.status, OrElse(p.state, "processing"))

\* ------------------------------------------ pollDreamFaceCompletion's loop

\* A broken variant: the pass returns, but not the URL it found.
ReturnedWithoutUrl(a, u) == [next |-> "return", attempts |-> a, wait |-> 0, url |-> NoUrl, msg |-> ""]

\* What one pass of the while loop decides.
Returned(a, u) == [next |-> "return", attempts |-> a, wait |-> 0, url |-> u, msg |-> ""]
Continue(a, w) == [next |-> "continue", attempts |-> a, wait |-> w, url |-> NoUrl, msg |-> ""]
Thrown(a, m) == [next |-> "throw", attempts |-> a, wait |-> 0, url |-> NoUrl, msg |-> m]

\* A broken variant: the loop condition lets one more pass through.
LoopCheckInclusive(a, w) ==
    IF a <= maxAttempts THEN Continue(a, w) ELSE Thrown(a, "timeout: maximum attempts reached")

\* src/server.js:204 and :288: the loop condition, and the throw after the loop.
LoopCheck(a, w) ==
    IF a < maxAttempts THEN Continue(a, w) ELSE Thrown(a, "timeout: maximum attempts reached")

\* A broken variant: the catch block forgets to count the attempt.
CatchPathNoCount(a) == LoopCheck(a, shortWait)

\* A broken variant: the catch block rethrows what it caught.
CatchPathRethrows(a) == Thrown(a + 1, "status check failed")

\* src/server.js:275-285: the catch block inside the loop; it receives every
\* error thrown in the try block, the provider-failure error of :268 included.
CatchPath(a) ==
    IF a + 1 >= maxAttempts
    THEN Thrown(a + 1, "timeout: check your task manually")
    ELSE LoopCheck(a + 1, shortWait)

\* A broken variant: a done status ends the poll whether or not a URL came.
PollReturnsOnStatusAlone(p) == isCompleted(p)

\* src/server.js:268  the error thrown on a failure report
FailureMessage(p) == "DreamFace processing failed: " \o errorMessage(p)

\* src/server.js:255
PollReturns(p) == isCompleted(p) /\ resultUrl(p) # NoUrl

\* A broken variant: the early non-2xx answers wait like all the others.
PollIterationShortWait(a, r, so) ==
    IF r.t = "neterr" THEN CatchPath(a)
    ELSE IF r.t = "non2xx"
         THEN IF a < earlyFailures THEN LoopCheck(a + 1, shortWait) ELSE CatchPath(a)
    ELSE IF so = "neterr" THEN CatchPath(a)
    ELSE IF PollReturns(r.body) THEN Returned(a, resultUrl(r.body))
    ELSE IF isFailed(r.body) THEN CatchPath(a)
    ELSE LoopCheck(a + 1, shortWait)

\* src/server.js:204-286: one pass of the loop with `attempts` = a, the status
\* request settling as r and the status PATCH of :237 settling as so.
PollIteration(a, r, so) ==
    IF r.t = "neterr" THEN CatchPath(a)
    ELSE IF r.t = "non2xx"
         THEN IF a < earlyFailures THEN LoopCheck(a + 1, longWait) ELSE CatchPath(a)
    ELSE IF so = "neterr" THEN CatchPath(a)
    ELSE IF PollReturns(r.body) THEN Returned(a, resultUrl(r.body))
    ELSE IF isFailed(r.body) THEN CatchPath(a)
    ELSE LoopCheck(a + 1, shortWait)

\* ------------------------------------------------------- files on the disk

\* A broken variant: a working path that does not depend on the uuid.
videoPathShared(u) == <<"temp", "video-", "">>

\* part_000:91-93 and :109: the paths mergeVideoWithMusic derives from the
\* job's uuid, as <<directory, name prefix, uuid>>.
videoPath(u) == <<"temp", "video-", u>>

musicPath(u) == <<"temp", "music-", u>>

processedMusicPath(u) == <<"temp", "processed-music-", u>>

outputPath(u) == <<"outputs", "final-", u>>

\* part_000:82-83: `${type}-${uuid}-${Date.now()}`, with type 'merged'.
publicPath(u) == <<"outputs", "merged-", u>>

\* src/server.js:25-28 (multer's filename) and :614-615.
uploadPath(u, field) == <<"uploads", field, u>>

processedPath(u) == <<"outputs", "processed-", u>>

HasFile(fs, p) == \E f \in fs : f.path = p

\* fs.writeFileSync / copyFileSync / ffmpeg's output by execution e: the file
\* at p is created, or replaced when the path is taken.
WriteFile(fs, p, e) == {f \in fs : f.path # p} \cup {[path |-> p, by |-> e]}

\* fs.unlinkSync(p)
RemoveFile(fs, p) == {f \in fs : f.path # p}

\* ------------------------------------------------------ music conditioning

\* Math.max(a, b)
max(a, b) == IF a >= b THEN a ELSE b

\* A broken variant: the fade start is not clamped.
fadeOutStartUnclamped(d) == d - fadeSeconds

\* part_000:115  st=${Math.max(0, videoDuration - 2)}
fadeOutStart(d) == max(0, d - fadeSeconds)

\* A broken variant: the music input is read once.
streamLoopOnce(s) == s

\* part_000:112  '-stream_loop -1': the length of the input stream made of a
\* track of length s; the track repeats without end.
streamLoop(s) == Endless

\* part_000:114  atrim=0:${videoDuration}: the samples of [from, to) that the
\* stream has.
atrim(len, from, to) ==
    IF len = Endless \/ len >= to THEN max(0, to - from) ELSE max(0, len - from)

\* part_000:110-121: the processed music file (afade changes no length).
Conditioned(s, d) ==
    [len |-> atrim(streamLoop(s), 0, d), fadeStart |-> fadeOutStart(d), fadeLen |-> fadeSeconds]

NoMusic == [len |-> 0, fadeStart |-> 0, fadeLen |-> 0]

\* ------------------------------------------- the promise around an ffmpeg run

\* A broken variant: every terminal event reaches the caller.
PromiseSettleAlways(st, event) ==
    IF event = "end" THEN "resolved" ELSE IF event = "error" THEN "rejected" ELSE st

\* new Promise((resolve, reject) => ... .on('end', resolve).on('error', reject)):
\* the state of the promise after the engine's event; resolve and reject act
\* on a pending promise only.
PromiseSettle(st, event) ==
    IF st # "pending" THEN st
    ELSE IF event = "end" THEN "resolved"
    ELSE IF event = "error" THEN "rejected"
    ELSE st

EngineEvents == {"progress", "end", "error"}

\* emitted: the events the engine has emitted in the run, in order;
\* outcomes: what the awaiting caller was resumed with.
NoRun == [promise |-> "none", emitted |-> <<>>, outcomes |-> <<>>]

\* .run(): the promise is pending, the engine has emitted nothing.
StartedRun == [NoRun EXCEPT !.promise = "pending"]

\* The run after the engine emits `event`: the promise settles as its
\* executor says, and each change of the promise resumes the caller.
AfterEvent(r, event) ==
    LET st == PromiseSettle(r.promise, event) IN
    [promise |-> st,
     emitted |-> Append(r.emitted, event),
     outcomes |-> IF st # r.promise THEN Append(r.outcomes, st) ELSE r.outcomes]

\* ------------------------------------------------------------ initial state

NoEv ==
    [sub |-> "none", t |-> "none", done |-> FALSE, url |-> FALSE, failed |-> FALSE,
     wait |-> 0, diag |-> "", word |-> "", req |-> 0, fails |-> 0]

\* The table before the first request: no row, or rows "u0" written by the
\* upstream workflow, with or without the two media URLs.
InitialStores ==
    {[i \in 1..n |-> Row("u0", v, a)] : n \in 0..MaxPreexisting, v \in BOOLEAN, a \in BOOLEAN}

Init ==
    /\ store \in InitialStores
    /\ kind = [e \in Slots |-> "none"]
    /\ pc = [e \in Slots |-> "idle"]
    /\ uuid = [e \in Slots |-> ""]
    /\ attempts = [e \in Slots |-> 0]
    /\ taskId = [e \in Slots |-> ""]
    /\ result = [e \in Slots |-> NoUrl]
    /\ error = [e \in Slots |-> ""]
    /\ failWrite = [e \in Slots |-> "none"]
    /\ wrote = [e \in Slots |-> "none"]
    /\ resp = [e \in Slots |-> "none"]
    /\ unhandled = FALSE
    /\ videoHasAudio = [e \in Slots |-> FALSE]
    /\ outAudio = [e \in Slots |-> {}]
    /\ files = {}
    /\ videoDuration = [e \in Slots |-> 0]
    /\ musicLen = [e \in Slots |-> 0]
    /\ processed = [e \in Slots |-> NoMusic]
    /\ run = [e \in Slots |-> NoRun]
    /\ ev = NoEv

\* ------------------------------------------------------- shared step parts

MergeVars == <<videoHasAudio, outAudio, files, videoDuration, musicLen, processed, run>>

\* A throw inside the try block of a lip-sync pipeline: control reaches the
\* catch block (src/server.js:474-479 and :573-581), which sends the 'failed'
\* PATCH and awaits it.
Throw(e, m) ==
    /\ pc' = [pc EXCEPT ![e] = "upd_failed"]
    /\ error' = [error EXCEPT ![e] = m]

\* A broken variant: the handler awaits the pipeline before it answers.
CreateVideoAwaitsPipelineYes == TRUE

\* src/server.js:406-423: processVideoWithDreamFace(...) is called without
\* await; res.json runs in the same turn, at the pipeline's first await.
CreateVideoAwaitsPipeline == FALSE

\* src/unnamed/part_000:169-186: the async job is an immediately invoked
\* function whose promise is not awaited.
MergeJobAwaited == FALSE

\* The response a fire-and-forget handler has sent once the job has ended.
AnswerAtEnd(e, awaited) ==
    IF awaited /\ resp[e] = "none" THEN [resp EXCEPT ![e] = "200"] ELSE resp

\* ------------------------------- src/server.js  POST /api/create-video

\* :373-399  the request arrives; the insert of the new row is sent.
CreateVideoRequest(e) ==
    /\ pc[e] = "idle"
    /\ kind' = [kind EXCEPT ![e] = "cv"]
    /\ uuid' = [uuid EXCEPT ![e] = FreshUuid(e)]
    /\ pc' = [pc EXCEPT ![e] = "cv_insert"]
    /\ UNCHANGED <<store, attempts, taskId, result, error, failWrite, wrote, resp,
                   unhandled, MergeVars, ev>>

\* :391-431  the insert settles. On a 2xx the pipeline is started (it runs to
\* its first await, the fetch of the row) and the handler answers with the
\* uuid; otherwise the handler answers 500 and starts nothing.
CreateVideoInserted(e, io) ==
    /\ pc[e] = "cv_insert"
    /\ IF io = "ok"
       THEN /\ store' = Append(store, Row(uuid[e], FALSE, FALSE))
            /\ pc' = [pc EXCEPT ![e] = "fetch"]
            /\ resp' = [resp EXCEPT ![e] = IF CreateVideoAwaitsPipeline THEN "none" ELSE "200"]
       ELSE /\ store' = store
            /\ pc' = [pc EXCEPT ![e] = "refused"]
            /\ resp' = [resp EXCEPT ![e] = "500"]
    /\ UNCHANGED <<kind, uuid, attempts, taskId, result, error, failWrite, wrote,
                   unhandled, MergeVars, ev>>

\* ---------------------------------- src/server.js  POST /process-uuid

\* The identifiers a caller can supply: "u0", or one a response or the table
\* has shown.
KnownUuids == {"u0"} \cup {store[i].uuid : i \in DOMAIN store}

\* :510-524  the request arrives with a uuid; the fetch of the row is sent.
\* (A request without uuid is answered 400 at :514-519 and touches nothing.)
ProcessUuidRequest(e, u) ==
    /\ pc[e] = "idle"
    /\ u \in KnownUuids
    /\ kind' = [kind EXCEPT ![e] = "pu"]
    /\ uuid' = [uuid EXCEPT ![e] = u]
    /\ pc' = [pc EXCEPT ![e] = "fetch"]
    /\ UNCHANGED <<store, attempts, taskId, result, error, failWrite, wrote, resp,
                   unhandled, MergeVars, ev>>

\* ------------------- the lip-sync pipeline, shared by both entry points
\* processVideoWithDreamFace (src/server.js:434-482) and the body of
\* POST /process-uuid (:523-591) run the same steps.

\* A broken variant: only the video URL is looked at.
UrlMissingVideoOnly(row) == ~row.video

\* :443 and :529  !videoUrl || !audioUrl, on the row's final_video_url and
\* final_audio_file.
UrlMissing(row) == ~row.video \/ ~row.audio

\* :439-450 and :524-539  fetchFromSupabase settles as fo. A failed query or an
\* empty result throws; a row lacking a media URL throws in the job and is
\* answered 400 by /process-uuid; otherwise 'requesting_lipsync' is sent.
Fetch(e, fo) ==
    /\ pc[e] = "fetch"
    /\ LET rows == SelectRows(store, uuid[e]) IN
       IF fo # "ok" THEN Throw(e, "supabase query failed") /\ resp' = resp
       ELSE IF Len(rows) = 0 THEN Throw(e, "no record found") /\ resp' = resp
       ELSE IF UrlMissing(rows[1])
            THEN IF kind[e] = "pu"
                 THEN /\ pc' = [pc EXCEPT ![e] = "done"]
                      /\ resp' = [resp EXCEPT ![e] = "400"]
                      /\ error' = error
                 ELSE Throw(e, "video or audio url missing") /\ resp' = resp
       ELSE /\ pc' = [pc EXCEPT ![e] = "upd_requesting"]
            /\ UNCHANGED <<error, resp>>
    /\ UNCHANGED <<store, kind, uuid, attempts, taskId, result, failWrite, wrote,
                   unhandled, MergeVars, ev>>

\* :448-453 and :537-542  the 'requesting_lipsync' PATCH settles; then
\* callDreamFaceAPI sends the submission.
UpdRequesting(e, so) ==
    /\ pc[e] = "upd_requesting"
    /\ store' = updateSupabaseRecord(store, uuid[e], [status |-> "requesting_lipsync"], so)
    /\ IF so = "neterr"
       THEN Throw(e, "fetch failed")
       ELSE pc' = [pc EXCEPT ![e] = "submit"] /\ error' = error
    /\ wrote' = [wrote EXCEPT ![e] = "progress"]
    /\ UNCHANGED <<kind, uuid, attempts, taskId, result, failWrite, resp,
                   unhandled, MergeVars, ev>>

\* :133-198, :453-459 and :542-548  callDreamFaceAPI settles as sr. It throws
\* without an API key, on a network error, on a non-2xx answer and when no
\* alias holds a task identifier; otherwise 'waiting_for_lipsync' is sent.
Submit(e, sr) ==
    /\ pc[e] = "submit"
    /\ IF sr.t = "nokey" THEN Throw(e, "api key required") /\ taskId' = taskId
       ELSE IF sr.t = "neterr" THEN Throw(e, "fetch failed") /\ taskId' = taskId
       ELSE IF sr.t = "non2xx" THEN Throw(e, "api error") /\ taskId' = taskId
       ELSE IF ExtractTaskId(sr.body) = ""
            THEN Throw(e, "no task id received") /\ taskId' = taskId
       ELSE /\ taskId' = [taskId EXCEPT ![e] = ExtractTaskId(sr.body)]
            /\ pc' = [pc EXCEPT ![e] = "upd_waiting"]
            /\ error' = error
    /\ UNCHANGED <<store, kind, uuid, attempts, result, failWrite, wrote, resp,
                   unhandled, MergeVars>>

\* :456-462 and :545-550  the 'waiting_for_lipsync' PATCH settles; then
\* pollDreamFaceCompletion starts with attempts = 0 and sends a status request.
UpdWaiting(e, so) ==
    /\ pc[e] = "upd_waiting"
    /\ store' = updateSupabaseRecord(store, uuid[e],
                    [status |-> "waiting_for_lipsync", task |-> taskId[e]], so)
    /\ IF so = "neterr"
       THEN Throw(e, "fetch failed") /\ attempts' = attempts
       ELSE /\ pc' = [pc EXCEPT ![e] = "poll"]
            /\ attempts' = [attempts EXCEPT ![e] = 0]
            /\ error' = error
    /\ wrote' = [wrote EXCEPT ![e] = "progress"]
    /\ UNCHANGED <<kind, uuid, taskId, result, failWrite, resp,
                   unhandled, MergeVars, ev>>

\* :200-289  one pass of the poll loop: the status request settles as r; on a
\* 2xx the 'lipsync_*' PATCH is sent and settles as so; the pass returns the
\* URL, or waits and sends the next status request, or throws out of the poll.
\* (`attempts` is local to the poll: 0 again once the poll has returned; after
\* a poll that threw it keeps its last value, the ceiling.)
Poll(e, r, so) ==
    /\ pc[e] = "poll"
    /\ LET it == PollIteration(attempts[e], r, so) IN
       /\ store' = IF r.t = "ok"
                   THEN updateSupabaseRecord(store, uuid[e],
                            [status |-> LipsyncStatus(r.body), task |-> taskId[e]], so)
                   ELSE store
       /\ attempts' = [attempts EXCEPT ![e] = IF it.next = "return" THEN 0 ELSE it.attempts]
       /\ IF it.next = "return"
          THEN /\ result' = [result EXCEPT ![e] = it.url]
               /\ pc' = [pc EXCEPT ![e] = "upd_stitched"]
               /\ error' = error
          ELSE IF it.next = "continue"
               THEN UNCHANGED <<result, pc, error>>
               ELSE Throw(e, it.msg) /\ result' = result
    /\ wrote' = IF r.t = "ok" THEN [wrote EXCEPT ![e] = "progress"] ELSE wrote
    /\ UNCHANGED <<kind, uuid, taskId, failWrite, resp, unhandled, MergeVars>>

\* :465-472 and :553-571  the 'stitched' PATCH settles. The job ends; the
\* /process-uuid handler answers 200. A thrown PATCH reaches the catch block.
UpdStitched(e, so) ==
    /\ pc[e] = "upd_stitched"
    /\ store' = updateSupabaseRecord(store, uuid[e],
                    [status |-> "stitched", stitch |-> result[e], task |-> taskId[e]], so)
    /\ IF so = "neterr"
       THEN Throw(e, "fetch failed") /\ resp' = resp
       ELSE /\ pc' = [pc EXCEPT ![e] = "done"]
            /\ error' = error
            /\ resp' = IF kind[e] = "pu" THEN [resp EXCEPT ![e] = "200"]
                       ELSE AnswerAtEnd(e, CreateVideoAwaitsPipeline)
    /\ wrote' = [wrote EXCEPT ![e] = IF so = "ok" THEN "success_acked" ELSE "success"]
    /\ UNCHANGED <<kind, uuid, attempts, taskId, result, failWrite,
                   unhandled, MergeVars, ev>>

\* :474-481 and :573-591  the 'failed' PATCH of the catch block settles.
\* /process-uuid swallows a thrown PATCH and answers 500.
\* processVideoWithDreamFace rethrows (the error it caught, or the PATCH's own
\* error): the promise rejects into the .catch of :411-417, which sends the
\* 'failed' PATCH a second time and does not await it.
UpdFailed(e, so) ==
    /\ pc[e] = "upd_failed"
    /\ store' = updateSupabaseRecord(store, uuid[e],
                    [status |-> "failed", err |-> error[e]], so)
    /\ failWrite' = [failWrite EXCEPT ![e] = so]
    /\ wrote' = [wrote EXCEPT ![e] = "failed"]
    /\ IF kind[e] = "pu"
       THEN /\ pc' = [pc EXCEPT ![e] = "done"]
            /\ resp' = [resp EXCEPT ![e] = "500"]
            /\ error' = error
       ELSE /\ pc' = [pc EXCEPT ![e] = "upd_failed_outer"]
            /\ resp' = resp
            /\ error' = IF so = "neterr" THEN [error EXCEPT ![e] = "fetch failed"] ELSE error
    /\ UNCHANGED <<kind, uuid, attempts, taskId, result, unhandled, MergeVars, ev>>

\* :411-417  the un-awaited 'failed' PATCH of the .catch handler settles; if
\* it throws, its promise rejects and nothing handles the rejection.
UpdFailedOuter(e, so) ==
    /\ pc[e] = "upd_failed_outer"
    /\ store' = updateSupabaseRecord(store, uuid[e],
                    [status |-> "failed", err |-> error[e]], so)
    /\ failWrite' = [failWrite EXCEPT ![e] = so]
    /\ wrote' = [wrote EXCEPT ![e] = "failed"]
    /\ unhandled' = (unhandled \/ so = "neterr")
    /\ pc' = [pc EXCEPT ![e] = "done"]
    /\ resp' = AnswerAtEnd(e, CreateVideoAwaitsPipeline)
    /\ UNCHANGED <<kind, uuid, attempts, taskId, result, error, MergeVars, ev>>

\* The upstream workflow that owns final_video_url and final_audio_file writes
\* them to a row that lacks them (the rows src/server.js:733-735 looks for).
UpstreamPublishesMedia(u) ==
    /\ \E i \in DOMAIN store : store[i].uuid = u /\ (~store[i].video \/ ~store[i].audio)
    /\ store' = PatchRows(store, u, [video |-> TRUE, audio |-> TRUE])
    /\ UNCHANGED <<kind, pc, uuid, attempts, taskId, result, error, failWrite, wrote,
                   resp, unhandled, MergeVars, ev>>

\* ------------------------- src/unnamed/part_000  POST /api/create-video

LipVars == <<attempts, taskId, result>>

\* part_000:127  .outputOptions(['-map 0:v', '-map 1:a', '-c:v copy', '-shortest'])
\* as <<input, stream type>> pairs; input 0 is the video, input 1 the music.
MergeMaps == {<<0, "v">>, <<1, "a">>}

\* The inputs whose audio the output carries: with no filter graph in the
\* command, exactly the inputs mapped with ":a".
MappedAudioInputs(maps) == {m[1] : m \in {x \in maps : x[2] = "a"}}

\* A broken variant: the probe is started as soon as the video is on disk,
\* without waiting for the music download.
StageAfterVideoOnly(st) ==
    CASE st = "job_upd_merging" -> "dl_video"
      [] st = "dl_video" -> "probe"
      [] st = "dl_music" -> "probe"
      [] st = "probe" -> "condition"
      [] st = "condition" -> "merge"
      [] st = "merge" -> "upload"
      [] st = "upload" -> "job_upd_completed"
      [] OTHER -> "done"

\* A broken variant: a statement after the acknowledged 'completed' PATCH,
\* still inside the try block, throws, and the catch block runs.
StageAfterThrowsAtEnd(st) ==
    CASE st = "job_upd_merging" -> "dl_video"
      [] st = "dl_video" -> "dl_music"
      [] st = "dl_music" -> "probe"
      [] st = "probe" -> "condition"
      [] st = "condition" -> "merge"
      [] st = "merge" -> "upload"
      [] st = "upload" -> "job_upd_completed"
      [] OTHER -> "job_upd_failed"

\* part_000:171-178 and :96-132: the awaits of a merge job in program order;
\* the stage that is started when the awaited stage st has succeeded.
StageAfter(st) ==
    CASE st = "job_upd_merging" -> "dl_video"
      [] st = "dl_video" -> "dl_music"
      [] st = "dl_music" -> "probe"
      [] st = "probe" -> "condition"
      [] st = "condition" -> "merge"
      [] st = "merge" -> "upload"
      [] st = "upload" -> "job_upd_completed"
      [] OTHER -> "done"

\* A throw inside a merge job. In the async job of /api/create-video the catch
\* block (part_000:180-183) sends the 'failed' PATCH and awaits it; the
\* handler of /merge-video-music (:203-205) answers 500.
JobThrow(e, m) ==
    /\ error' = [error EXCEPT ![e] = m]
    /\ IF kind[e] = "mm"
       THEN /\ pc' = [pc EXCEPT ![e] = "done"]
            /\ resp' = [resp EXCEPT ![e] = "500"]
       ELSE /\ pc' = [pc EXCEPT ![e] = "job_upd_failed"]
            /\ resp' = resp

\* The job goes on with the stage after st.
JobGoesOn(e, st) ==
    /\ pc' = [pc EXCEPT ![e] = StageAfter(st)]
    /\ error' = error
    /\ resp' = resp

\* part_000:142-166  the request arrives. Without both URLs it is answered
\* 400; otherwise a uuid is generated and the insert of the new row is sent.
MergeCreateVideoRequest(e, valid) ==
    /\ pc[e] = "idle"
    /\ kind' = [kind EXCEPT ![e] = "mv"]
    /\ IF valid
       THEN /\ uuid' = [uuid EXCEPT ![e] = FreshUuid(e)]
            /\ pc' = [pc EXCEPT ![e] = "mv_insert"]
            /\ resp' = resp
       ELSE /\ uuid' = uuid
            /\ pc' = [pc EXCEPT ![e] = "refused"]
            /\ resp' = [resp EXCEPT ![e] = "400"]
    /\ UNCHANGED <<store, error, failWrite, wrote, unhandled, LipVars, MergeVars, ev>>

\* part_000:158-190  the insert settles; its status is not looked at. Unless
\* the request threw, the async job is started (it runs to its first await,
\* the 'merging_audio' PATCH) and the handler answers with the uuid.
MergeCreateVideoInserted(e, io) ==
    /\ pc[e] = "mv_insert"
    /\ store' = IF io = "ok" THEN Append(store, Row(uuid[e], FALSE, FALSE)) ELSE store
    /\ IF io = "neterr"
       THEN /\ pc' = [pc EXCEPT ![e] = "refused"]
            /\ resp' = [resp EXCEPT ![e] = "500"]
       ELSE /\ pc' = [pc EXCEPT ![e] = "job_upd_merging"]
            /\ resp' = [resp EXCEPT ![e] = IF MergeJobAwaited THEN "none" ELSE "200"]
    /\ UNCHANGED <<kind, uuid, error, failWrite, wrote, unhandled, LipVars, MergeVars, ev>>

\* part_000:193-200  POST /merge-video-music. Without both URLs it is answered
\* 400; otherwise a uuid is generated and mergeVideoWithMusic starts the
\* download of the video; the handler awaits the merge.
MergeVideoMusicRequest(e, valid) ==
    /\ pc[e] = "idle"
    /\ kind' = [kind EXCEPT ![e] = "mm"]
    /\ IF valid
       THEN /\ uuid' = [uuid EXCEPT ![e] = FreshUuid(e)]
            /\ pc' = [pc EXCEPT ![e] = "dl_video"]
            /\ resp' = resp
       ELSE /\ uuid' = uuid
            /\ pc' = [pc EXCEPT ![e] = "refused"]
            /\ resp' = [resp EXCEPT ![e] = "400"]
    /\ UNCHANGED <<store, error, failWrite, wrote, unhandled, LipVars, MergeVars, ev>>

\* part_000:171-172 and :96  the 'merging_audio' PATCH settles; then
\* mergeVideoWithMusic starts the download of the video.
JobUpdMerging(e, so) ==
    /\ pc[e] = "job_upd_merging"
    /\ store' = updateSupabaseRecord(store, uuid[e], [status |-> "merging_audio"], so)
    /\ IF so = "neterr"
       THEN JobThrow(e, "fetch failed")
       ELSE JobGoesOn(e, "job_upd_merging")
    /\ wrote' = [wrote EXCEPT ![e] = "progress"]
    /\ UNCHANGED <<kind, uuid, failWrite, unhandled, LipVars, MergeVars, ev>>

\* part_000:96-97 and :44-50  the video download settles: the file is written
\* (it has an audio stream or has none) and the music download is started.
DownloadVideo(e, ok, hasAudio) ==
    /\ pc[e] = "dl_video"
    /\ IF ok
       THEN /\ JobGoesOn(e, "dl_video")
            /\ videoHasAudio' = [videoHasAudio EXCEPT ![e] = hasAudio]
            /\ files' = WriteFile(files, videoPath(uuid[e]), e)
       ELSE JobThrow(e, "failed to download") /\ UNCHANGED <<videoHasAudio, files>>
    /\ UNCHANGED <<store, kind, uuid, failWrite, wrote, unhandled, LipVars, outAudio,
                   videoDuration, musicLen, processed, run, ev>>

\* part_000:97-105  the music download settles: the file, a track of s
\* seconds, is written; then ffprobe is started on the video.
DownloadMusic(e, ok, s) ==
    /\ pc[e] = "dl_music"
    /\ IF ok
       THEN /\ JobGoesOn(e, "dl_music")
            /\ musicLen' = [musicLen EXCEPT ![e] = s]
            /\ files' = WriteFile(files, musicPath(uuid[e]), e)
       ELSE JobThrow(e, "failed to download") /\ UNCHANGED <<musicLen, files>>
    /\ UNCHANGED <<store, kind, uuid, failWrite, wrote, unhandled, LipVars, videoHasAudio,
                   outAudio, videoDuration, processed, run, ev>>

\* part_000:100-121  ffprobe calls back with an error, or with the duration d
\* of the video file; then the conditioning run is started.
Probe(e, ok, d) ==
    /\ pc[e] = "probe"
    /\ ok => HasFile(files, videoPath(uuid[e]))
    /\ IF ok
       THEN /\ JobGoesOn(e, "probe")
            /\ videoDuration' = [videoDuration EXCEPT ![e] = d]
            /\ run' = [run EXCEPT ![e] = StartedRun]
       ELSE JobThrow(e, "ffprobe failed") /\ UNCHANGED <<videoDuration, run>>
    /\ UNCHANGED <<store, kind, uuid, failWrite, wrote, unhandled, LipVars, videoHasAudio,
                   outAudio, files, musicLen, processed, ev>>

\* part_000:110-132  the conditioning run emits 'end' or 'error' and its
\* promise settles. Resolved: the processed music is on disk and the merge
\* run is started. Rejected: the job throws.
ConditionMusic(e, ok) ==
    /\ pc[e] = "condition"
    /\ ok => HasFile(files, musicPath(uuid[e]))
    /\ LET r == AfterEvent(run[e], IF ok THEN "end" ELSE "error") IN
       IF r.promise = "resolved"
       THEN /\ JobGoesOn(e, "condition")
            /\ processed' = [processed EXCEPT ![e] = Conditioned(musicLen[e], videoDuration[e])]
            /\ files' = WriteFile(files, processedMusicPath(uuid[e]), e)
            /\ run' = [run EXCEPT ![e] = StartedRun]
       ELSE /\ JobThrow(e, "ffmpeg failed")
            /\ run' = [run EXCEPT ![e] = r]
            /\ UNCHANGED <<processed, files>>
    /\ UNCHANGED <<store, kind, uuid, failWrite, wrote, unhandled, LipVars, videoHasAudio,
                   outAudio, videoDuration, musicLen, ev>>

\* part_000:124-134 and :173  the merge run emits 'end' or 'error' and its
\* promise settles. Resolved: the output, with the streams the output options
\* map, is on disk; then the output is published. Rejected: the job throws.
MergeStreams(e, ok) ==
    /\ pc[e] = "merge"
    /\ ok => (HasFile(files, videoPath(uuid[e])) /\ HasFile(files, processedMusicPath(uuid[e])))
    /\ LET r == AfterEvent(run[e], IF ok THEN "end" ELSE "error") IN
       /\ run' = [run EXCEPT ![e] = r]
       /\ IF r.promise = "resolved"
          THEN /\ JobGoesOn(e, "merge")
               /\ outAudio' = [outAudio EXCEPT ![e] = MappedAudioInputs(MergeMaps)]
               /\ files' = WriteFile(files, outputPath(uuid[e]), e)
          ELSE JobThrow(e, "ffmpeg failed") /\ UNCHANGED <<outAudio, files>>
    /\ UNCHANGED <<store, kind, uuid, failWrite, wrote, unhandled, LipVars, videoHasAudio,
                   videoDuration, musicLen, processed, ev>>

\* part_000:81-87, :173-178 and :201-202  uploadToPublicServer copies the
\* output into ./outputs under its public name (the copy can throw). Then the
\* job sends the 'completed' PATCH; /merge-video-music answers 200.
Upload(e, ok) ==
    /\ pc[e] = "upload"
    /\ ok => HasFile(files, outputPath(uuid[e]))
    /\ IF ok
       THEN /\ files' = WriteFile(files, publicPath(uuid[e]), e)
            /\ error' = error
            /\ IF kind[e] = "mm"
               THEN /\ pc' = [pc EXCEPT ![e] = "done"]
                    /\ resp' = [resp EXCEPT ![e] = "200"]
               ELSE /\ pc' = [pc EXCEPT ![e] = StageAfter("upload")]
                    /\ resp' = resp
       ELSE JobThrow(e, "copy failed") /\ files' = files
    /\ UNCHANGED <<store, kind, uuid, failWrite, wrote, unhandled, LipVars, videoHasAudio,
                   outAudio, videoDuration, musicLen, processed, run, ev>>

\* part_000:174-179  the 'completed' PATCH settles and the job ends; a thrown
\* PATCH reaches the catch block.
JobUpdCompleted(e, so) ==
    /\ pc[e] = "job_upd_completed"
    /\ store' = updateSupabaseRecord(store, uuid[e],
                    [status |-> "completed", merged |-> TheUrl], so)
    /\ IF so = "neterr"
       THEN JobThrow(e, "fetch failed")
       ELSE /\ pc' = [pc EXCEPT ![e] = StageAfter("job_upd_completed")]
            /\ error' = error
            /\ resp' = AnswerAtEnd(e, MergeJobAwaited)
    /\ wrote' = [wrote EXCEPT ![e] = IF so = "ok" THEN "success_acked" ELSE "success"]
    /\ UNCHANGED <<kind, uuid, failWrite, unhandled, LipVars, MergeVars, ev>>

\* part_000:180-184  the 'failed' PATCH of the catch block settles. If it
\* throws, the async function's promise rejects, and nothing handles it.
JobUpdFailed(e, so) ==
    /\ pc[e] = "job_upd_failed"
    /\ store' = updateSupabaseRecord(store, uuid[e],
                    [status |-> "failed", err |-> error[e]], so)
    /\ failWrite' = [failWrite EXCEPT ![e] = so]
    /\ wrote' = [wrote EXCEPT ![e] = "failed"]
    /\ unhandled' = (unhandled \/ so = "neterr")
    /\ pc' = [pc EXCEPT ![e] = "done"]
    /\ resp' = AnswerAtEnd(e, MergeJobAwaited)
    /\ UNCHANGED <<kind, uuid, error, LipVars, MergeVars, ev>>

\* part_000:219-237 (and src/server.js:848-872)  the hourly sweep unlinks the
\* files whose mtime is more than an hour old. Time is not modelled: `old` is
\* the set of files that have reached that age.
Cleanup(old) ==
    /\ old # {}
    /\ old \subseteq files
    /\ files' = files \ old
    /\ UNCHANGED <<store, kind, pc, uuid, error, failWrite, wrote, resp, unhandled, LipVars,
                   videoHasAudio, outAudio, videoDuration, musicLen, processed, run, ev>>

\* --------------------------------------------- the engine behind a promise

\* The engine emits 'progress' while the run's promise is pending.
EngineProgress(e) ==
    /\ pc[e] \in {"condition", "merge", "compose"}
    /\ run[e].promise = "pending"
    /\ Len(run[e].emitted) < MaxEngineEvents
    /\ run' = [run EXCEPT ![e] = AfterEvent(run[e], "progress")]
    /\ UNCHANGED <<store, kind, pc, uuid, error, failWrite, wrote, resp, unhandled, LipVars,
                   videoHasAudio, outAudio, files, videoDuration, musicLen, processed, ev>>

\* The engine emits a further event after the promise of its run has settled;
\* the 'end' and 'error' listeners are still attached.
EngineLateEvent(e, event) ==
    /\ run[e].promise \in {"resolved", "rejected"}
    /\ Len(run[e].emitted) < MaxEngineEvents
    /\ run' = [run EXCEPT ![e] = AfterEvent(run[e], event)]
    /\ UNCHANGED <<store, kind, pc, uuid, error, failWrite, wrote, resp, unhandled, LipVars,
                   videoHasAudio, outAudio, files, videoDuration, musicLen, processed, ev>>

\* ---------------------------------------- src/server.js  POST /process

\* :595-650  the request arrives; multer has stored the uploaded fields in
\* ./uploads. Without both files it is answered 400 (a file that did arrive
\* stays in ./uploads); otherwise the ffmpeg run is started.
ProcessRequest(e, up) ==
    /\ pc[e] = "idle"
    /\ kind' = [kind EXCEPT ![e] = "pr"]
    /\ uuid' = [uuid EXCEPT ![e] = FreshUuid(e)]
    /\ files' = files \cup {[path |-> uploadPath(FreshUuid(e), f), by |-> e] : f \in up}
    /\ IF up = {"video", "audio"}
       THEN /\ pc' = [pc EXCEPT ![e] = "compose"]
            /\ run' = [run EXCEPT ![e] = StartedRun]
            /\ resp' = resp
       ELSE /\ pc' = [pc EXCEPT ![e] = "refused"]
            /\ run' = run
            /\ resp' = [resp EXCEPT ![e] = "400"]
    /\ UNCHANGED <<store, error, failWrite, wrote, unhandled, LipVars, videoHasAudio,
                   outAudio, videoDuration, musicLen, processed, ev>>

\* :620-685  the run emits 'end' or 'error' and its promise settles. Either
\* way the two uploads are unlinked; resolved, the handler answers 200 with
\* the download URL of the output; rejected, it answers 500.
Compose(e, ok) ==
    /\ pc[e] = "compose"
    /\ ok => (HasFile(files, uploadPath(uuid[e], "video")) /\ HasFile(files, uploadPath(uuid[e], "audio")))
    /\ LET r == AfterEvent(run[e], IF ok THEN "end" ELSE "error")
           kept == RemoveFile(RemoveFile(files, uploadPath(uuid[e], "video")),
                              uploadPath(uuid[e], "audio")) IN
       /\ run' = [run EXCEPT ![e] = r]
       /\ pc' = [pc EXCEPT ![e] = "done"]
       /\ IF r.promise = "resolved"
          THEN /\ files' = WriteFile(kept, processedPath(uuid[e]), e)
               /\ resp' = [resp EXCEPT ![e] = "200"]
               /\ error' = error
          ELSE /\ files' = kept
               /\ resp' = [resp EXCEPT ![e] = "500"]
               /\ error' = [error EXCEPT ![e] = "Processing failed"]
    /\ UNCHANGED <<store, kind, uuid, failWrite, wrote, unhandled, LipVars, videoHasAudio,
                   outAudio, videoDuration, musicLen, processed, ev>>

\* ------------------------------------------------------------ specifications

\* What the provider answered, in the words of its contract (not of the
\* code): the last status check, and the submission. diag is the diagnostic
\* of a failure report; word is the provider's status word in an answer whose
\* status PATCH the store accepted; req counts the status requests of the poll
\* that have been answered (the count stops past the attempt ceiling); fails
\* counts the non-2xx answers among them (the count stops past the sixth).
Observe(a, r, so) ==
    [sub |-> ev.sub,
     diag |-> IF r.t = "ok" /\ (r.body.status \in {"failed", "error"}
                                 \/ r.body.state \in {"failed", "error"})
              THEN errorMessage(r.body) ELSE "",
     word |-> IF r.t # "ok" \/ so # "ok" THEN ""
              ELSE IF r.body.status # "" THEN r.body.status
              ELSE IF r.body.state # "" THEN r.body.state
              ELSE "processing",
     req |-> IF ev.req <= maxAttempts THEN ev.req + 1 ELSE ev.req,
     fails |-> IF r.t = "non2xx" /\ ev.fails <= earlyFailures THEN ev.fails + 1 ELSE ev.fails,
     t |-> r.t,
     done |-> r.t = "ok" /\ (r.body.status \in {"completed", "success"}
                              \/ r.body.state \in {"completed", "success"}),
     url |-> r.t = "ok" /\ \E i \in DOMAIN UrlAliases : r.body[UrlAliases[i]] # "",
     failed |-> r.t = "ok" /\ (r.body.status \in {"failed", "error"}
                                \/ r.body.state \in {"failed", "error"}),
     wait |-> PollIteration(a, r, so).wait]

ObserveSubmit(sr) ==
    [ev EXCEPT !.sub = IF sr.t # "ok" THEN sr.t
                       ELSE IF \E a \in AliasSet : sr.body[a] # "" THEN "alias"
                       ELSE "noalias"]

\* The steps of a lip-sync execution after its request has arrived.
LipStep(e) ==
    \/ \E io \in StoreOutcomes : CreateVideoInserted(e, io)
    \/ \E fo \in StoreOutcomes : Fetch(e, fo)
    \/ \E so \in StoreOutcomes : UpdRequesting(e, so)
    \/ \E so \in StoreOutcomes : UpdWaiting(e, so)
    \/ \E so \in StoreOutcomes : UpdStitched(e, so)
    \/ \E so \in StoreOutcomes : UpdFailed(e, so)
    \/ \E so \in StoreOutcomes : UpdFailedOuter(e, so)

\* The durations a probe can report and the lengths a music track can have.
Durations == 0..MaxDuration

MusicLengths == 1..MaxMusic

\* One typical video and one typical (shorter) music track.
DurationsSmall == {MaxDuration - 1}

MusicLengthsSmall == {MaxMusic - 1}

\* The steps of a merge job after its request has arrived.
MergeStep(e) ==
    \/ \E io \in StoreOutcomes : MergeCreateVideoInserted(e, io)
    \/ \E so \in StoreOutcomes : JobUpdMerging(e, so)
    \/ \E ok \in BOOLEAN, ha \in BOOLEAN : DownloadVideo(e, ok, ha)
    \/ \E ok \in BOOLEAN, s \in MusicLengthsSmall : DownloadMusic(e, ok, s)
    \/ \E ok \in BOOLEAN, d \in DurationsSmall : Probe(e, ok, d)
    \/ \E ok \in BOOLEAN : ConditionMusic(e, ok)
    \/ \E ok \in BOOLEAN : MergeStreams(e, ok)
    \/ \E ok \in BOOLEAN : Upload(e, ok)
    \/ \E so \in StoreOutcomes : JobUpdCompleted(e, so)
    \/ \E so \in StoreOutcomes : JobUpdFailed(e, so)

\* The identifiers of a run.
Uuids == {"u0", "j1"}

\* The provider of Spec ends a task within MaxPendingChecks + 1 status checks:
\* after MaxPendingChecks checks that did not end the poll, it reports the
\* result. (SpecPoll has no such provider: there every answer can come at
\* every check, up to the attempt ceiling.)
StatusResponsesWithin(a) ==
    IF a < MaxPendingChecks
    THEN StatusResponsesSmall
    ELSE {[t |-> "ok", body |-> [EmptyPayload EXCEPT !.status = "completed", !.resultUrl = TheUrl]]}

\* Both servers on one table: a first request to any endpoint (execution 1),
\* overlapped by a /process-uuid request (execution 2).
Next ==
    \/ CreateVideoRequest(1)
    \/ \E valid \in BOOLEAN : MergeCreateVideoRequest(1, valid)
    \/ \E e \in Slots, u \in Uuids : ProcessUuidRequest(e, u)
    \/ \E e \in Slots : LipStep(e)
    \/ \E e \in Slots, sr \in SubmitResponsesSmall : Submit(e, sr) /\ ev' = ev
    \/ \E e \in Slots, so \in {"ok", "rejected"} :
            \E r \in StatusResponsesWithin(attempts[e]) : Poll(e, r, so) /\ ev' = ev
    \/ MergeStep(1)
    \/ \E u \in Uuids : UpstreamPublishesMedia(u)

Spec == Init /\ [][Next]_vars

\* One lip-sync execution (execution 1), every provider answer, each answer
\* observed (the failed checks are not counted here).
SubmitStep ==
    \E sr \in SubmitResponses : Submit(1, sr) /\ ev' = ObserveSubmit(sr)

\* The status checks explored: every answer with the status PATCH accepted;
\* the four typical answers with the PATCH rejected or thrown.
StatusChecks ==
    {<<r, "ok">> : r \in StatusResponses}
    \cup {<<r, so>> : r \in StatusResponsesSmall \cup
                          {[t |-> "ok", body |-> [EmptyPayload EXCEPT !.state = "success"]]},
                     so \in {"rejected", "neterr"}}

PollStep ==
    \E c \in StatusChecks :
        Poll(1, c[1], c[2])
            /\ ev' = [Observe(attempts[1], c[1], c[2]) EXCEPT !.fails = ev.fails]

PipelineStep ==
    \/ LipStep(1)
    \/ SubmitStep
    \/ PollStep

NextPoll ==
    \/ CreateVideoRequest(1)
    \/ \E u \in Uuids : ProcessUuidRequest(1, u)
    \/ PipelineStep
    \/ \E u \in Uuids : UpstreamPublishesMedia(u)

SpecPoll == Init /\ [][NextPoll]_vars

\* One lip-sync execution against a provider that answers each status check
\* with a network error, a non-2xx, or one of the four typical payloads. The
\* status requests and the failed checks are not counted here.
StatusChecksSmall ==
    {<<r, "ok">> : r \in StatusResponsesSmall \cup {[t |-> "neterr"]}}
    \cup {<<[t |-> "ok", body |-> [EmptyPayload EXCEPT !.status = "processing"]], so>> :
            so \in {"rejected", "neterr"}}

PipelineStepSmall ==
    \/ LipStep(1)
    \/ \E sr \in SubmitResponsesSmall : Submit(1, sr) /\ ev' = ObserveSubmit(sr)
    \/ \E c \in StatusChecksSmall :
            Poll(1, c[1], c[2])
                /\ ev' = [Observe(attempts[1], c[1], c[2])
                            EXCEPT !.req = ev.req, !.fails = ev.fails]

NextFair ==
    \/ CreateVideoRequest(1)
    \/ \E u \in Uuids : ProcessUuidRequest(1, u)
    \/ PipelineStepSmall
    \/ \E u \in Uuids : UpstreamPublishesMedia(u)

\* The same execution and provider, with the failed status checks counted.
PipelineStepWaits ==
    \/ LipStep(1)
    \/ \E sr \in SubmitResponsesSmall : Submit(1, sr) /\ ev' = ObserveSubmit(sr)
    \/ \E c \in StatusChecksSmall :
            Poll(1, c[1], c[2])
                /\ ev' = [Observe(attempts[1], c[1], c[2]) EXCEPT !.req = ev.req]

NextWaits ==
    \/ CreateVideoRequest(1)
    \/ \E u \in Uuids : ProcessUuidRequest(1, u)
    \/ PipelineStepWaits
    \/ \E u \in Uuids : UpstreamPublishesMedia(u)

SpecWaits == Init /\ [][NextWaits]_vars

\* Every request the pipeline sends is answered and every timer fires: a
\* pipeline that can take a step takes one.
FairSpecPoll == Init /\ [][NextFair]_vars /\ WF_vars(PipelineStepSmall)

\* The steps of a merge job with every duration and every track length.
MergeStepFull(e) ==
    \/ \E io \in StoreOutcomes : MergeCreateVideoInserted(e, io)
    \/ \E so \in StoreOutcomes : JobUpdMerging(e, so)
    \/ \E ok \in BOOLEAN, ha \in BOOLEAN : DownloadVideo(e, ok, ha)
    \/ \E ok \in BOOLEAN, s \in MusicLengths : DownloadMusic(e, ok, s)
    \/ \E ok \in BOOLEAN, d \in Durations : Probe(e, ok, d)
    \/ \E ok \in BOOLEAN : ConditionMusic(e, ok)
    \/ \E ok \in BOOLEAN : MergeStreams(e, ok)
    \/ \E ok \in BOOLEAN : Upload(e, ok)
    \/ \E so \in StoreOutcomes : JobUpdCompleted(e, so)
    \/ \E so \in StoreOutcomes : JobUpdFailed(e, so)

\* The files of the executions that ended more than an hour ago. (In
\* SpecMerge every request is served within the hour, so the files of an
\* execution in flight are younger; SpecSweep has no such limit.)
FilesOfEnded(e) == {f \in files : f.by = e /\ pc[e] \in {"done", "refused"}}

\* The merge server with two requests in flight (a first one to either
\* endpoint, overlapped by one to /merge-video-music), and the hourly sweep.
NextMerge ==
    \/ \E valid \in BOOLEAN : MergeCreateVideoRequest(1, valid)
    \/ \E e \in Slots, valid \in BOOLEAN : MergeVideoMusicRequest(e, valid)
    \/ \E e \in Slots : MergeStep(e)
    \/ \E e \in Slots : Cleanup(FilesOfEnded(e))

\* The merge server's table holds the rows its own handler inserts.
InitMerge == Init /\ store = <<>>

SpecMerge == InitMerge /\ [][NextMerge]_vars

\* One request that runs ffmpeg (a merge job, or /process), with every video
\* duration and track length, and an engine that emits any events in any
\* order, up to MaxEngineEvents per run.
NextRuns ==
    \/ \E valid \in BOOLEAN : MergeCreateVideoRequest(1, valid)
    \/ \E valid \in BOOLEAN : MergeVideoMusicRequest(1, valid)
    \/ \E up \in SUBSET {"video", "audio"} : ProcessRequest(1, up)
    \/ MergeStepFull(1)
    \/ \E ok \in BOOLEAN : Compose(1, ok)
    \/ EngineProgress(1)
    \/ \E event \in EngineEvents : EngineLateEvent(1, event)

SpecRuns == InitMerge /\ [][NextRuns]_vars

\* The order in which a merge job writes its files (part_000:96-97, :110-121,
\* :124-132, :84): a file written at an earlier stage has the earlier mtime.
StageOfPath(p) ==
    CASE p[2] = "video-" -> 1
      [] p[2] = "music-" -> 2
      [] p[2] = "processed-music-" -> 3
      [] p[2] = "final-" -> 4
      [] OTHER -> 5

\* part_000:224-231  now - stats.mtime.getTime() > oneHour: the files on disk
\* that are more than an hour old, when those written up to stage k are.
OlderFiles(k) == {f \in files : StageOfPath(f.path) <= k}

\* The merge server with one request in flight whose downloads and ffmpeg
\* runs take any time, and the hourly sweep: a tick can come between any two
\* steps of the job and finds the files of the stages that lie more than an
\* hour back.
NextSweep ==
    \/ \E valid \in BOOLEAN : MergeCreateVideoRequest(1, valid)
    \/ \E valid \in BOOLEAN : MergeVideoMusicRequest(1, valid)
    \/ MergeStep(1)
    \/ \E k \in 1..5 : Cleanup(OlderFiles(k))

SpecSweep == InitMerge /\ [][NextSweep]_vars

\* ------------------------------------------------------------------ claims

\* Execution 1 has just handled a status check: it was polling, and the pass
\* counted an attempt or left the poll.
PollPass ==
    /\ pc[1] = "poll"
    /\ attempts'[1] # attempts[1] \/ pc'[1] # "poll"

\* The rows of execution e's job all have the given status.
RowsHaveStatus(e, st) ==
    \A i \in DOMAIN store : store[i].uuid = uuid[e] => store[i].status = st

\* The execution has ended after sending the 'failed' PATCH, and the row shows
\* 'failed' if the store accepted the last such PATCH.
EndedFailed(e) ==
    /\ failWrite[e] # "none"
    /\ failWrite[e] = "ok" => RowsHaveStatus(e, "failed")
    /\ kind[e] = "pu" => resp[e] = "500"

\* C1: the poll returns only on a status check that reports a done status and
\* carries a result URL, and then returns that URL; a check that reports a done
\* status without a URL, with attempts remaining, is followed by a wait and
\* the next status check.
C1_ReturnsOnlyOnDoneWithUrl ==
    [][/\ (pc[1] = "poll" /\ pc'[1] = "upd_stitched")
            => (ev'.t = "ok" /\ ev'.done /\ ev'.url /\ result'[1] = TheUrl)
       /\ (PollPass /\ ev'.done /\ ~ev'.url /\ attempts[1] + 1 < maxAttempts)
            => (pc'[1] = "poll" /\ attempts'[1] = attempts[1] + 1 /\ ev'.wait > 0)]_vars

\* C1 witness: a done status without URL was handled late in the budget and
\* the poll goes on.
C1_Witness ==
    /\ pc[1] = "poll"
    /\ ev.t = "ok" /\ ev.done /\ ~ev.url /\ ~ev.failed
    /\ attempts[1] = maxAttempts - 1

\* C2 (as claimed): a status check that reports a failure status (and no done
\* status) ends the poll on that very check, with a failure.
C2_FailureStatusEndsPoll ==
    [][(PollPass /\ ev'.t = "ok" /\ ev'.failed /\ ~ev'.done)
            => pc'[1] = "upd_failed"]_vars

\* C3: a poll always ends; after a poll that ran into the attempt ceiling the
\* execution has sent the 'failed' PATCH, and the row shows 'failed' if the
\* store accepted it.
C3_PollEndsAndTimeoutFails ==
    /\ [](pc[1] = "poll" => <>(pc[1] = "done"))
    /\ []((pc[1] = "done" /\ attempts[1] = maxAttempts) => EndedFailed(1))
    /\ []((pc[1] # "poll" /\ attempts[1] # 0) =>
            (attempts[1] = maxAttempts /\ pc[1] \in {"upd_failed", "upd_failed_outer", "done"}))

\* C3 witness: a poll timed out and the row shows 'failed'.
C3_Witness ==
    /\ pc[1] = "done"
    /\ attempts[1] = maxAttempts
    /\ failWrite[1] = "ok"
    /\ RowsHaveStatus(1, "failed")
    /\ CountRows(store, uuid[1]) = 1

\* C4: a status check that ends in a non-2xx answer or a thrown network error
\* costs exactly one attempt; with attempts remaining it is followed by a wait
\* and the next status check; it ends the poll only at the attempt ceiling.
C4_TransportErrorRetried ==
    [][(PollPass /\ ev'.t \in {"non2xx", "neterr"})
            => /\ attempts'[1] = attempts[1] + 1
               /\ attempts[1] + 1 < maxAttempts => (pc'[1] = "poll" /\ ev'.wait > 0)
               /\ pc'[1] # "poll" => (attempts'[1] = maxAttempts /\ pc'[1] = "upd_failed")]_vars

\* C4 witness: a non-2xx answer after the early failures, and the poll goes on.
C4_Witness ==
    /\ pc[1] = "poll"
    /\ ev.t = "non2xx"
    /\ attempts[1] > earlyFailures + 1

\* C5: an execution gets past the submission only if the 2xx submission
\* response carried a task identifier under a known alias; after a submission
\* that threw (no API key, network error, non-2xx, no alias) no status check
\* is ever made and the execution ends failed.
C5_PollOnlyWithTaskId ==
    /\ (pc[1] \in {"upd_waiting", "poll", "upd_stitched"} \/ ev.t # "none" \/ taskId[1] # "")
            => (ev.sub = "alias" /\ taskId[1] = TheTask)
    /\ ev.sub \in {"nokey", "neterr", "non2xx", "noalias"}
            => /\ pc[1] \in {"upd_failed", "upd_failed_outer", "done"}
               /\ ev.t = "none" /\ attempts[1] = 0 /\ taskId[1] = ""
               /\ pc[1] = "done" => EndedFailed(1)

\* C5 witness: a 2xx submission response without any alias; the execution
\* has ended and the row shows 'failed'.
C5_Witness ==
    /\ ev.sub = "noalias"
    /\ pc[1] = "done"
    /\ failWrite[1] = "ok"
    /\ RowsHaveStatus(1, "failed")
    /\ CountRows(store, uuid[1]) = 1

\* C6 (as claimed): no promise of a fire-and-forget job is rejected without a
\* handler, whatever fails inside the job, the 'failed' PATCH included.
C6_NoUnhandledRejection == ~unhandled

\* C7 (as claimed): when the video has an audio stream, the merged output
\* carries the video's audio (input 0) together with the music (input 1).
C7_ExistingAudioMixed ==
    \A e \in Slots :
        (outAudio[e] # {} /\ videoHasAudio[e]) => {0, 1} \subseteq outAudio[e]

\* An execution is running: its request has arrived and it has not ended.
Running(e) == pc[e] \notin {"idle", "done", "refused"}

\* C8 (as claimed): no two running executions work on the same job identifier.
C8_OneOwnerPerJob ==
    \A e1 \in Slots, e2 \in Slots :
        (e1 # e2 /\ Running(e1) /\ Running(e2)) => uuid[e1] # uuid[e2]

\* C9: the number of rows with a given uuid changes only when a create-video
\* handler's insert of that uuid settles; no step of a /process-uuid execution
\* (nor any PATCH of any pipeline) changes it.
C9_ProcessUuidNeverAddsRows ==
    [][\A u \in {"u0", "j1", "j2"} :
            CountRows(store', u) # CountRows(store, u)
                => \E e \in Slots :
                        /\ kind[e] \in {"cv", "mv"}
                        /\ pc[e] \in {"cv_insert", "mv_insert"}
                        /\ pc'[e] # pc[e]
                        /\ uuid[e] = u]_vars

\* C9 witness: two /process-uuid executions of the same uuid have both ended
\* with success, and the table still holds the one row.
C9_Witness ==
    /\ kind[1] = "pu" /\ kind[2] = "pu"
    /\ uuid[1] = "u0" /\ uuid[2] = "u0"
    /\ resp[1] = "200" /\ resp[2] = "200"
    /\ Len(store) = 1
    /\ store[1].status = "stitched"

\* The pipeline of a create-video request has been started.
JobStarted(e) ==
    /\ kind[e] \in {"cv", "mv"}
    /\ pc[e] \notin {"idle", "cv_insert", "mv_insert", "refused"}

\* C10: a create-video handler has answered 200 with the uuid from the moment
\* its pipeline is started: before any step of the pipeline has settled, and
\* whatever the pipeline's outcome is.
C10_AnswersBeforePipeline ==
    \A e \in Slots : JobStarted(e) => resp[e] = "200"

\* C10 witness: the answer is out and the pipeline is still polling.
C10_Witness ==
    /\ kind[1] = "cv"
    /\ resp[1] = "200"
    /\ pc[1] = "poll"
    /\ attempts[1] > 0

\* Execution e serves a request of the merge server.
MergeJob(e) == kind[e] \in {"mv", "mm"}

\* C11: in a merge job each stage is started by the step in which the stage
\* before it finished: the music download after the video download, the probe
\* after the music download, the conditioning after the probe, the merge after
\* the conditioning, the publication after the merge, the 'completed' write
\* after the publication; and what a stage needs from the earlier ones is
\* there when it runs.
C11_StagesStrictlySequential ==
    /\ [][\A e \in Slots :
            (kind'[e] \in {"mv", "mm"} /\ pc'[e] # pc[e]) =>
                /\ pc'[e] = "dl_video" => pc[e] \in {"job_upd_merging", "idle"}
                /\ pc'[e] = "dl_music" => pc[e] = "dl_video"
                /\ pc'[e] = "probe" => pc[e] = "dl_music"
                /\ pc'[e] = "condition" => pc[e] = "probe"
                /\ pc'[e] = "merge" => pc[e] = "condition"
                /\ pc'[e] = "upload" => pc[e] = "merge"
                /\ pc'[e] = "job_upd_completed" => pc[e] = "upload"]_vars
    /\ [](\A e \in Slots : MergeJob(e) =>
            /\ pc[e] \in {"probe", "condition", "merge", "upload"} => musicLen[e] > 0
            /\ pc[e] \in {"merge", "upload"} => processed[e] # NoMusic
            /\ pc[e] \in {"upload", "job_upd_completed"} => outAudio[e] # {}
            /\ HasFile(files, publicPath(uuid[e])) => outAudio[e] # {}
            /\ (\E i \in DOMAIN store :
                    store[i].uuid = uuid[e] /\ store[i].status = "completed")
                  => (pc[e] = "done" /\ outAudio[e] # {}))

\* C11 witness: one job has gone through every stage and is recorded as
\* completed while the other job is in the middle of its own stages.
C11_Witness ==
    /\ kind[1] = "mv" /\ pc[1] = "done"
    /\ \E i \in DOMAIN store : store[i].uuid = uuid[1] /\ store[i].status = "completed"
    /\ MergeJob(2) /\ pc[2] = "condition"

\* C12 (as claimed): when the poll has ended on a status check that reported a
\* failure, the error it ended with is the failure message built around the
\* provider's diagnostic ('Unknown error' when the payload has none), and that
\* message is what the 'failed' PATCH records.
C12_FailureDiagnosticRecorded ==
    (ev.t = "ok" /\ ev.failed /\ ~ev.done) =>
        /\ pc[1] = "upd_failed" => error[1] = "DreamFace processing failed: " \o ev.diag
        /\ (pc[1] = "done" /\ failWrite[1] = "ok" /\ kind[1] = "pu") =>
                \A i \in DOMAIN store :
                    store[i].uuid = uuid[1] =>
                        store[i].err = "DreamFace processing failed: " \o ev.diag

\* The working files of execution e's merge job that are on disk.
WorkingFiles(e) ==
    {f \in files : f.path \in {videoPath(uuid[e]), musicPath(uuid[e]),
                                processedMusicPath(uuid[e])}}

\* The merge job of execution e has ended.
MergeJobEnded(e) == MergeJob(e) /\ pc[e] = "done"

\* C13 (as claimed): once a merge job has ended, completed or failed, none of
\* its working files (downloaded video, downloaded music, conditioned music)
\* is on disk.
C13_WorkingFilesRemoved ==
    \A e \in Slots : MergeJobEnded(e) => WorkingFiles(e) = {}

\* The files in ./outputs that execution e produced.
OutputsOf(e) == {f \in files : f.path[1] = "outputs" /\ f.by = e}

\* The merge job of execution e has ended without an error.
MergeJobCompleted(e) == MergeJobEnded(e) /\ error[e] = ""

\* C14 (as claimed): after a merge job has completed, ./outputs never holds
\* more than one file produced by that job.
C14_OneOutputFilePerJob ==
    \A e \in Slots : MergeJobCompleted(e) => Cardinality(OutputsOf(e)) <= 1

\* The paths the merge job of execution e writes and reads.
JobPaths(e) ==
    {videoPath(uuid[e]), musicPath(uuid[e]), processedMusicPath(uuid[e]),
     outputPath(uuid[e]), publicPath(uuid[e])}

\* C15: a step never writes a file to a path at which a file of another
\* execution lies, and the file at any path a merge job works with (the paths
\* it reads its inputs from) was written by that job itself.
C15_JobsUseDisjointPaths ==
    /\ [][\A f \in files' \ files :
            ~\E g \in files : g.path = f.path /\ g.by # f.by]_vars
    /\ [](\A e \in Slots : MergeJob(e) =>
            \A f \in files : f.path \in JobPaths(e) => f.by = e)

\* C15 witness: two merge jobs are in flight at the same stage, each with its
\* own three working files on disk.
C15_Witness ==
    /\ pc[1] = "merge" /\ pc[2] = "merge"
    /\ Cardinality(WorkingFiles(1)) = 3
    /\ Cardinality(WorkingFiles(2)) = 3
    /\ WorkingFiles(1) \cap WorkingFiles(2) = {}

\* The processed music file of execution e's merge job has been written.
MusicConditioned(e) == MergeJob(e) /\ processed[e] # NoMusic

\* C16: the fade-out of the conditioned music starts at d - 2 when the video
\* duration d is at least 2, and at 0 when d is less than 2; it is never
\* negative.
C16_FadeStartClamped ==
    \A e \in Slots : MusicConditioned(e) =>
        /\ processed[e].fadeStart >= 0
        /\ videoDuration[e] >= 2 => processed[e].fadeStart = videoDuration[e] - 2
        /\ videoDuration[e] < 2 => processed[e].fadeStart = 0

\* C16 witness: a video of one second; the fade starts at 0.
C16_Witness ==
    /\ MusicConditioned(1)
    /\ videoDuration[1] = 1
    /\ processed[1].fadeStart = 0

\* C17: the conditioned music is exactly as long as the video, whether the
\* source track is shorter than the video or not.
C17_ConditionedLengthIsDuration ==
    \A e \in Slots : MusicConditioned(e) => processed[e].len = videoDuration[e]

\* C17 witness: a track shorter than the video (and not a divisor of its
\* length) was conditioned to the video's length.
C17_Witness ==
    /\ MusicConditioned(1)
    /\ musicLen[1] = 3
    /\ videoDuration[1] = 4
    /\ processed[1].len = 4

\* The terminal events ('end', 'error') among the events of a run.
Terminals(r) == SelectSeq(r.emitted, LAMBDA x : x # "progress")

\* C18: the caller of an ffmpeg run is resumed at most once; it is resumed
\* with success if the first terminal event of the run is 'end', with an error
\* if it is 'error', and not at all before a terminal event; /process answers
\* accordingly.
C18_OneOutcomePerRun ==
    \A e \in Slots :
        /\ Len(run[e].outcomes) <= 1
        /\ Terminals(run[e]) = <<>> => run[e].outcomes = <<>>
        /\ Terminals(run[e]) # <<>> =>
                run[e].outcomes = <<IF Terminals(run[e])[1] = "end"
                                    THEN "resolved" ELSE "rejected">>
        /\ pc[e] \in {"condition", "merge", "compose"} => run[e].outcomes = <<>>
        /\ (kind[e] = "pr" /\ pc[e] = "done") =>
                (resp[e] = "200" <=> run[e].outcomes = <<"resolved">>)

\* C18 witness: the engine emitted 'progress', 'error' and then 'end'; the
\* caller was resumed once, with the error.
C18_Witness ==
    /\ run[1].emitted = <<"progress", "error", "end">>
    /\ run[1].outcomes = <<"rejected">>
    /\ kind[1] = "pr" /\ resp[1] = "500"

\* Execution 1 has just handled the answer to a status request.
StatusAnswered == pc[1] = "poll" /\ ev'.req # ev.req

\* The status requests the poll of execution 1 has sent: the answered ones,
\* and the one in flight while it polls.
StatusRequestsSent == ev.req + (IF pc[1] = "poll" THEN 1 ELSE 0)

\* C19: every status request whose answer does not end the poll with the
\* result adds exactly one to `attempts`, whatever the answer was; `attempts`
\* never exceeds 120 and a poll sends at most 120 status requests.
C19_OneAttemptPerRequest ==
    /\ [][StatusAnswered =>
            \/ pc'[1] = "upd_stitched" /\ ev'.t = "ok"
            \/ attempts'[1] = attempts[1] + 1]_vars
    /\ [](attempts[1] <= 120)
    /\ [](StatusRequestsSent <= 120)
    /\ [](pc[1] = "poll" => attempts[1] = ev.req)

\* C19 witness: the 120th status request was answered with a non-2xx and the
\* poll has ended with 120 attempts counted.
C19_Witness ==
    /\ pc[1] = "upd_failed"
    /\ ev.req = 120
    /\ ev.t = "non2xx"
    /\ attempts[1] = 120

\* C20: after a 2xx status check whose PATCH the store accepted, the job's
\* rows have status 'lipsync_' followed by the provider's status word (status
\* field, else state field, else 'processing') and carry the task id, whether
\* the check ended the poll or not; a status check that was answered with a
\* non-2xx or not at all leaves the table as it was.
C20_StatusWrittenOnEvery2xx ==
    [][StatusAnswered =>
        /\ (ev'.t = "ok" /\ ev'.word # "") =>
                \A i \in DOMAIN store' :
                    store'[i].uuid = uuid[1] =>
                        /\ store'[i].status = "lipsync_" \o ev'.word
                        /\ store'[i].task = taskId[1]
        /\ ev'.t # "ok" => store' = store]_vars

\* C20 witness: the check that ended the poll reported its status in the
\* state field, and the row shows it.
C20_Witness ==
    /\ pc[1] = "upd_stitched"
    /\ ev.word = "success"
    /\ RowsHaveStatus(1, "lipsync_success")
    /\ CountRows(store, uuid[1]) = 1

\* Execution 1 has handled a status check and waits before the next one.
WaitsAfterCheck == PollPass /\ pc'[1] = "poll"

\* C21 (as claimed): each of the first five non-2xx answers of a poll is
\* followed by the 10-second wait, wherever in the poll it comes; every other
\* wait between checks is 5 seconds.
C21_FirstFiveFailuresWaitLonger ==
    [][WaitsAfterCheck =>
        ev'.wait = IF ev'.t = "non2xx" /\ ev'.fails <= 5 THEN 10 ELSE 5]_vars

\* C21 (amended): a non-2xx answer handled while fewer than five attempts
\* have been counted is followed by a 10-second wait and the next check;
\* every other wait between checks is 5 seconds.
C21_EarlyAttemptFailuresWaitLonger ==
    [][/\ WaitsAfterCheck =>
            ev'.wait = IF ev'.t = "non2xx" /\ attempts[1] < 5 THEN 10 ELSE 5
       /\ (PollPass /\ ev'.t = "non2xx" /\ attempts[1] < 5) => pc'[1] = "poll"]_vars

\* C21 witness: the first non-2xx answer of a poll came after seven counted
\* attempts and was followed by the 5-second wait.
C21_Witness ==
    /\ pc[1] = "poll"
    /\ ev.t = "non2xx"
    /\ ev.fails = 1
    /\ attempts[1] = 8
    /\ ev.wait = 5

\* Row i of the table after the step belongs to execution 1's job and has
\* just been given the status st.
StatusWritten(i, st) ==
    /\ store'[i].uuid = uuid[1]
    /\ store'[i].status = st
    /\ i \in DOMAIN store => store[i].status # st

\* C22: a row gets status 'stitched' only in the step that follows the return
\* of the poll, the last status check having reported a done status with a
\* result URL, and final_stitch_video is then that non-empty URL; after a poll
\* that ran into the ceiling no row of the job is 'stitched'.
C22_StitchedOnlyAfterPollReturned ==
    /\ [][\A i \in DOMAIN store' :
            StatusWritten(i, "stitched") =>
                /\ pc[1] = "upd_stitched"
                /\ ev.t = "ok" /\ ev.done /\ ev.url
                /\ store'[i].stitch = TheUrl
                /\ store'[i].stitch # NoUrl]_vars
    /\ [](\A i \in DOMAIN store :
            (store[i].uuid = uuid[1] /\ attempts[1] = maxAttempts)
                => store[i].status # "stitched")
    /\ [](\A i \in DOMAIN store :
            store[i].status = "stitched" => store[i].stitch # NoUrl)

\* C22 witness: a /process-uuid execution has ended with the row 'stitched'
\* and the provider's URL in it.
C22_Witness ==
    /\ kind[1] = "pu" /\ pc[1] = "done" /\ resp[1] = "200"
    /\ ev.done /\ ev.url
    /\ RowsHaveStatus(1, "stitched")
    /\ CountRows(store, uuid[1]) = 1
    /\ store[1].stitch = TheUrl


\* The success status of execution e's pipeline.
SuccessStatus(e) == IF kind[e] = "mv" THEN "completed" ELSE "stitched"

\* C23: within one execution the terminal outcomes are exclusive and final:
\* once the store has acknowledged the success status ('stitched',
\* 'completed') the execution writes no status any more; after 'failed' it
\* writes nothing but 'failed'; a success status that was sent and not
\* acknowledged is followed by 'failed' at most; and the acknowledged success
\* status is the status of the job's rows at that moment.
C23_TerminalOutcomesExclusive ==
    [][\A e \in Slots :
        /\ wrote[e] = "success_acked" => wrote'[e] = "success_acked"
        /\ wrote[e] = "failed" => wrote'[e] = "failed"
        /\ wrote[e] = "success" => wrote'[e] \in {"success", "failed"}
        /\ (wrote'[e] = "success_acked" /\ wrote[e] # "success_acked")
              => \A i \in DOMAIN store' :
                    store'[i].uuid = uuid[e] => store'[i].status = SuccessStatus(e)]_vars

\* C23 witness: a merge job published its output, its 'completed' PATCH
\* threw and it then wrote 'failed'; a /process-uuid execution ended after
\* its 'stitched' was acknowledged.
C23_Witness ==
    /\ kind[1] = "mv" /\ pc[1] = "done" /\ wrote[1] = "failed"
    /\ HasFile(files, publicPath(uuid[1]))
    /\ kind[2] = "pu" /\ pc[2] = "done" /\ wrote[2] = "success_acked"


\* The row a fetch of execution e's uuid returns has both media URLs.
FetchedRowComplete(e) ==
    /\ Len(SelectRows(store, uuid[e])) > 0
    /\ SelectRows(store, uuid[e])[1].video
    /\ SelectRows(store, uuid[e])[1].audio

\* C24: the job submits to the provider only if the fetched row has both
\* media URLs. A fetch that returns a row lacking one ends the job with no
\* provider request: /process-uuid answers 400 and writes nothing;
\* processVideoWithDreamFace goes to its catch block, which sends 'failed'.
C24_SubmitsOnlyWithBothUrls ==
    /\ [](pc[1] = "submit" \/ ev.sub # "none" => FetchedRowComplete(1))
    /\ [][(/\ pc[1] = "fetch" /\ pc'[1] # "fetch"
            /\ Len(SelectRows(store, uuid[1])) > 0 /\ ~FetchedRowComplete(1)
            /\ error'[1] # "supabase query failed")
           => IF kind[1] = "pu"
              THEN pc'[1] = "done" /\ resp'[1] = "400" /\ store' = store
              ELSE pc'[1] = "upd_failed" /\ error'[1] = "video or audio url missing"]_vars
    /\ [][(pc[1] = "upd_failed" /\ pc'[1] # "upd_failed")
           => wrote'[1] = "failed"]_vars
    /\ [](resp[1] = "400" \/ error[1] = "video or audio url missing"
            => ev.sub = "none" /\ ev.t = "none" /\ taskId[1] = "")
    /\ [](resp[1] = "400" => wrote[1] = "none")

\* C24 witness: /process-uuid fetched a row that has the video URL and lacks
\* the audio file, answered 400, and the row still has its first status.
C24_Witness ==
    /\ kind[1] = "pu" /\ pc[1] = "done" /\ resp[1] = "400"
    /\ ev.sub = "none" /\ taskId[1] = ""
    /\ Len(SelectRows(store, uuid[1])) = 1
    /\ SelectRows(store, uuid[1])[1].video /\ ~SelectRows(store, uuid[1])[1].audio
    /\ RowsHaveStatus(1, "processing_started")


\* Execution e is a create-video request whose pipeline has been started or
\* whose handler has answered with the uuid.
StartedOrAnswered(e) ==
    /\ kind[e] \in {"cv", "mv"}
    /\ pc[e] \notin {"idle", "cv_insert", "mv_insert", "refused"} \/ resp[e] = "200"

\* C25 (as claimed): in both create-video variants the pipeline is started,
\* and the uuid is answered, only after the store has accepted the insert of
\* the job's row: a started or answered job has its row in the table.
C25_PipelineStartsAfterInsertAcknowledged ==
    \A e \in Slots : StartedOrAnswered(e) => CountRows(store, uuid[e]) > 0


\* C26 (as claimed): once the /process handler has answered (200, 500 or
\* 400) no input file uploaded by its request is left in ./uploads.
C26_NoUploadLeftAfterResponse ==
    \A e \in Slots :
        (kind[e] = "pr" /\ resp[e] # "none")
            => \A f \in {"video", "audio"} : ~HasFile(files, uploadPath(uuid[e], f))


\* The downloaded and conditioned files that the merge job of execution e,
\* at its present stage, still has to read: the video up to the merge run,
\* the music up to the conditioning run, the conditioned music in the merge
\* run.
NeededPaths(e) ==
    IF ~MergeJob(e) THEN {}
    ELSE (IF pc[e] \in {"dl_music", "probe", "condition", "merge"}
          THEN {videoPath(uuid[e])} ELSE {})
         \cup (IF pc[e] \in {"probe", "condition"} THEN {musicPath(uuid[e])} ELSE {})
         \cup (IF pc[e] = "merge" THEN {processedMusicPath(uuid[e])} ELSE {})

\* C27 (as claimed): no step removes a file that a running merge job still
\* has to read.
C27_SweepSparesFilesInUse ==
    [][\A e \in Slots : \A f \in files \ files' :
            f.by = e => f.path \notin NeededPaths(e)]_vars

====
